---- MODULE Spec2Model ----
(***************************************************************************)
(* Model of selene's mutation-testing engine (danicat/selene):             *)
(*   - the token-swapping mutation operators (internal/mutator),           *)
(*   - the coverage index (internal/runner, LoadCoverage / IsCovered),     *)
(*   - runner.Run: producer, bounded task and result channels, workers,    *)
(*     the go-test driver with its timeout, and the collector.             *)
(***************************************************************************)
EXTENDS Integers, Sequences, FiniteSets, TLC

\* ------------------------------------------------------------------------
\* Bounds of the model
\* ------------------------------------------------------------------------

\* largest config.Workers explored
MaxWorkers == 2

\* longest subprocess output stream (number of stream elements)
MaxOut == 2

\* ------------------------------------------------------------------------
\* AST nodes and the mutation operators
\* ------------------------------------------------------------------------

\* a node of a parsed file: kind, operator token (BinaryExpr.Op or
\* IncDecStmt.Tok), start position and the line the position table gives it
Node(kind, op, pos, line) == [kind |-> kind, op |-> op, pos |-> pos, line |-> line]

\* mutator.Mutation: ID, Pos and the two closures; a closure is the captured
\* node reference (file, node) with the token it writes
Mutation(name, f, n, nd, newOp) ==
    [ID |-> <<name, nd.pos>>, Pos |-> nd.pos, line |-> nd.line,
     file |-> f, node |-> n, newOp |-> newOp, originalOp |-> nd.op]

ArithmeticNewOp(op) ==
    CASE op = "+" -> "-"
      [] op = "-" -> "+"
      [] op = "*" -> "/"
      [] op = "/" -> "*"
      [] OTHER -> "none"

ArithmeticMutatorCheck(f, n, nd) ==
    IF nd.kind # "BinaryExpr" THEN <<>>
    ELSE IF ArithmeticNewOp(nd.op) = "none" THEN <<>>
    ELSE << Mutation("Arithmetic", f, n, nd, ArithmeticNewOp(nd.op)) >>

ComparisonNewOp(op) ==
    CASE op = "==" -> "!="
      [] op = "!=" -> "=="
      [] op = "<" -> ">="
      [] op = ">" -> "<="
      [] op = "<=" -> ">"
      [] op = ">=" -> "<"
      [] OTHER -> "none"

ComparisonMutatorCheck(f, n, nd) ==
    IF nd.kind # "BinaryExpr" THEN <<>>
    ELSE IF ComparisonNewOp(nd.op) = "none" THEN <<>>
    ELSE << Mutation("Comparison", f, n, nd, ComparisonNewOp(nd.op)) >>

BooleanNewOp(op) ==
    CASE op = "&&" -> "||"
      [] op = "||" -> "&&"
      [] OTHER -> "none"

BooleanMutatorCheck(f, n, nd) ==
    IF nd.kind # "BinaryExpr" THEN <<>>
    ELSE IF BooleanNewOp(nd.op) = "none" THEN <<>>
    ELSE << Mutation("Boolean", f, n, nd, BooleanNewOp(nd.op)) >>

\* a boundary table that negates the comparison instead of moving its boundary
ConditionalsBoundaryNewOpNegates(op) ==
    CASE op = "<" -> ">="
      [] op = "<=" -> ">"
      [] op = ">" -> "<="
      [] op = ">=" -> "<"
      [] OTHER -> "none"

ConditionalsBoundaryNewOp(op) ==
    CASE op = "<" -> "<="
      [] op = "<=" -> "<"
      [] op = ">" -> ">="
      [] op = ">=" -> ">"
      [] OTHER -> "none"

ConditionalsBoundaryMutatorCheck(f, n, nd) ==
    IF nd.kind # "BinaryExpr" THEN <<>>
    ELSE IF ConditionalsBoundaryNewOp(nd.op) = "none" THEN <<>>
    ELSE << Mutation("ConditionalsBoundary", f, n, nd, ConditionalsBoundaryNewOp(nd.op)) >>

IncrementDecrementNewTok(tok) ==
    CASE tok = "++" -> "--"
      [] tok = "--" -> "++"
      [] OTHER -> "none"

IncrementDecrementMutatorCheck(f, n, nd) ==
    IF nd.kind # "IncDecStmt" THEN <<>>
    ELSE IF IncrementDecrementNewTok(nd.op) = "none" THEN <<>>
    ELSE << Mutation("IncrementDecrement", f, n, nd, IncrementDecrementNewTok(nd.op)) >>

\* the catalog operators that implement the Mutator interface
MutatorNames ==
    {"Arithmetic", "Comparison", "Boolean", "ConditionalsBoundary", "IncrementDecrement"}

\* m.Check(n), dispatched on the operator; nd is the node as it is NOW
Check(m, f, n, nd) ==
    CASE m = "Arithmetic" -> ArithmeticMutatorCheck(f, n, nd)
      [] m = "Comparison" -> ComparisonMutatorCheck(f, n, nd)
      [] m = "Boolean" -> BooleanMutatorCheck(f, n, nd)
      [] m = "ConditionalsBoundary" -> ConditionalsBoundaryMutatorCheck(f, n, nd)
      [] m = "IncrementDecrement" -> IncrementDecrementMutatorCheck(f, n, nd)

\* the Apply closure: expr.Op = newOp on the captured node of tree a
ApplyMutation(a, mut) ==
    [a EXCEPT ![mut.file][mut.node].op = mut.newOp]

\* a Revert that writes the mutated token back instead of the original one
RevertMutationWritesNewOp(a, mut) ==
    [a EXCEPT ![mut.file][mut.node].op = mut.newOp]

\* the Revert closure: expr.Op = originalOp on the captured node of tree a
RevertMutation(a, mut) ==
    [a EXCEPT ![mut.file][mut.node].op = mut.originalOp]

\* printer.Fprint of one file: the text is determined by the node tokens, in
\* traversal order (identifiers and layout are never touched by a mutation)
Serialize(nodes) == [i \in DOMAIN nodes |-> nodes[i].op]

\* ------------------------------------------------------------------------
\* Paths and the coverage index
\* ------------------------------------------------------------------------

\* a path is the sequence of its characters; "/" is the separator

\* strings.HasSuffix(s, suffix)
HasSuffix(s, suffix) ==
    /\ Len(suffix) <= Len(s)
    /\ SubSeq(s, Len(s) - Len(suffix) + 1, Len(s)) = suffix

RECURSIVE SplitFrom(_, _, _)
\* the segments of s from index i on, cur being the segment under construction
SplitFrom(s, i, cur) ==
    IF i > Len(s) THEN << cur >>
    ELSE IF s[i] = "/" THEN << cur >> \o SplitFrom(s, i + 1, <<>>)
    ELSE SplitFrom(s, i + 1, Append(cur, s[i]))

\* strings.Split(s, "/")
Split(s) == SplitFrom(s, 1, <<>>)

RECURSIVE StripTrailingSlashes(_)
StripTrailingSlashes(p) ==
    IF p # <<>> /\ p[Len(p)] = "/" THEN StripTrailingSlashes(SubSeq(p, 1, Len(p) - 1))
    ELSE p

\* filepath.Base(path)
Base(p) ==
    IF p = <<>> THEN << "." >>
    ELSE LET q == StripTrailingSlashes(p)
         IN  IF q = <<>> THEN << "/" >>
             ELSE LET parts == Split(q) IN parts[Len(parts)]

RECURSIVE CommonTail(_, _, _, _)
\* the number of trailing segments on which fParts[1..i] and cParts[1..j] agree
CommonTail(fParts, cParts, i, j) ==
    IF i >= 1 /\ j >= 1 /\ fParts[i] = cParts[j]
    THEN 1 + CommonTail(fParts, cParts, i - 1, j - 1)
    ELSE 0

\* a match that only accepts a key the file name ends with
PathMatchFilenameSuffixOnly(filename, covFile) ==
    HasSuffix(filename, covFile)

\* the match computed per profile key by Coverage.IsCovered
PathMatch(filename, covFile) ==
    IF HasSuffix(filename, covFile) THEN TRUE
    ELSE IF HasSuffix(covFile, Base(filename)) THEN TRUE
    ELSE LET fParts == Split(filename)
             cParts == Split(covFile)
             matched == CommonTail(fParts, cParts, Len(fParts), Len(cParts))
         IN  \/ matched >= 2
             \/ Len(cParts) = 1 /\ matched = Len(cParts)

\* one coverage block of the profile, as its line is decoded
Block(sl, el, count) == [StartLine |-> sl, EndLine |-> el, Count |-> count]

RECURSIVE BlocksOf(_, _)
\* the blocks the profile holds under key with count > 0, in profile order
BlocksOf(profile, key) ==
    IF profile = <<>> THEN <<>>
    ELSE LET e == Head(profile)
         IN  (IF e.file = key /\ e.block.Count > 0 THEN << e.block >> ELSE <<>>)
             \o BlocksOf(Tail(profile), key)

\* LoadCoverage: the blocks with count > 0, grouped by file key
LoadCoverage(profile) ==
    LET keys == {profile[i].file : i \in {j \in DOMAIN profile : profile[j].block.Count > 0}}
    IN  [k \in keys |-> BlocksOf(profile, k)]

\* Coverage.IsCovered(filename, line)
IsCovered(cov, filename, line) ==
    \E covFile \in DOMAIN cov :
        /\ PathMatch(filename, covFile)
        /\ \E i \in DOMAIN cov[covFile] :
              line >= cov[covFile][i].StartLine /\ line <= cov[covFile][i].EndLine

\* ------------------------------------------------------------------------
\* The inputs of a run: source files on disk, operator lists, profiles
\* ------------------------------------------------------------------------

PathCmp == << "/", "m", "/", "c" >>
\* filepath.IsAbs
IsAbs(p) == p # <<>> /\ p[1] = "/"

\* filepath.Join of a directory and one name
Join(dir, name) ==
    IF dir = <<>> THEN name
    ELSE StripTrailingSlashes(dir) \o << "/" >> \o name

\* the directory Run is started in
Cwd == << "/", "m" >>

\* filepath.Abs
Abs(p) == IF IsAbs(p) THEN p ELSE Join(Cwd, p)

\* mutation directories: an absolute one (os.MkdirTemp) and a relative one
\* (given by flag or environment)
DirAbs == << "/", "t" >>
DirRel == << "t" >>

PathSum == << "/", "m", "/", "s" >>
PathBad == << "/", "m", "/", "x" >>

\* if a < b { ... }
SrcCmp == << Node("BinaryExpr", "<", 1, 1) >>

\* x := a + b + c   (the outer and the inner sum start at the same position)
\* i++              (on the next line)
SrcSum == << Node("BinaryExpr", "+", 1, 1),
             Node("BinaryExpr", "+", 1, 1),
             Node("IncDecStmt", "++", 2, 2) >>

\* parser.ParseFile: PathBad holds text that does not parse
ParseFile(filename) ==
    CASE filename = PathCmp -> [ok |-> TRUE, nodes |-> SrcCmp]
      [] filename = PathSum -> [ok |-> TRUE, nodes |-> SrcSum]
      [] OTHER -> [ok |-> FALSE, nodes |-> <<>>]

\* every line of both files executed
ProfileAll ==
    << [file |-> << "m", "/", "c" >>, block |-> Block(1, 1, 1)],
       [file |-> << "m", "/", "s" >>, block |-> Block(1, 2, 3)] >>

\* only line 1 executed; line 2 of PathSum is listed with count 0
ProfileLine1 ==
    << [file |-> << "m", "/", "c" >>, block |-> Block(1, 1, 1)],
       [file |-> << "m", "/", "s" >>, block |-> Block(1, 1, 1)],
       [file |-> << "m", "/", "s" >>, block |-> Block(2, 2, 0)] >>

\* the runs explored: patterns, operator list, coverage profile
Inputs ==
    { \* no pattern at all
      [patterns |-> <<>>, Mutators |-> << "Arithmetic" >>, profile |-> ProfileAll,
       MutationDir |-> DirAbs],
      \* a file that does not parse, then two operators that target the same node
      [patterns |-> << PathBad, PathCmp >>,
       Mutators |-> << "Comparison", "ConditionalsBoundary" >>, profile |-> ProfileAll,
       MutationDir |-> DirAbs],
      \* two files: an uncovered mutation in the first, a covered one in the second
      [patterns |-> << PathSum, PathCmp >>,
       Mutators |-> << "IncrementDecrement", "Comparison" >>, profile |-> ProfileLine1,
       MutationDir |-> DirAbs] }

\* ------------------------------------------------------------------------
\* The test subprocess: its output stream and how the driver decodes it
\* ------------------------------------------------------------------------

\* the Action values of go test's JSON events
EventActions == {"run", "pass", "fail", "skip", "output"}

\* one element of the combined output: a JSON event (named by its Action) or
\* text that does not decode as one
StreamElems == EventActions \cup {"garbage"}

RECURSIVE SeqsUpTo(_, _)
\* the sequences over S of length at most n
SeqsUpTo(S, n) ==
    IF n = 0 THEN { <<>> }
    ELSE LET shorter == SeqsUpTo(S, n - 1)
         IN  shorter \cup {Append(q, x) : q \in shorter, x \in S}

Outputs == SeqsUpTo(StreamElems, MaxOut)

\* the streams of the everyday outcomes: nothing printed (the build broke),
\* a passing run, a failing run
CommonOutputs == { <<>>, << "pass" >>, << "fail" >> }

RECURSIVE DecodeSkipsUndecodable(_, _)
\* a decoder loop that drops what it cannot decode and goes on
DecodeSkipsUndecodable(rest, tests) ==
    IF rest = <<>> THEN [events |-> tests, err |-> "nil"]
    ELSE IF Head(rest) = "garbage" THEN DecodeSkipsUndecodable(Tail(rest), tests)
    ELSE DecodeSkipsUndecodable(Tail(rest), Append(tests, [Action |-> Head(rest)]))

RECURSIVE Decode(_, _)
\* the decoder loop of parseGoTestOutput over the rest of the stream
Decode(rest, tests) ==
    IF rest = <<>> THEN [events |-> tests, err |-> "nil"]
    ELSE IF Head(rest) = "garbage" THEN [events |-> tests, err |-> "decode"]
    ELSE Decode(Tail(rest), Append(tests, [Action |-> Head(rest)]))

parseGoTestOutput(testOutput) == Decode(testOutput, <<>>)

\* what runGoTest returns on the done branch of its select
DoneBranch(out, err) ==
    IF err # "nil" /\ Len(out) = 0 THEN [events |-> <<>>, err |-> err]
    ELSE parseGoTestOutput(out)

\* what runGoTest returns on the ctx.Done() branch of its select
CtxBranch == [events |-> <<>>, err |-> "ctx"]

\* a classification that flags a timeout as a build failure too
ClassifyTimeoutAsBuildFailure(ret, ctxErr) ==
    IF ret.err # "nil"
    THEN IF ctxErr = "DeadlineExceeded"
         THEN [status |-> "killed (timeout)", bFailures |-> 1]
         ELSE [status |-> "killed", bFailures |-> 1]
    ELSE IF \E i \in DOMAIN ret.events : ret.events[i].Action = "fail"
         THEN [status |-> "killed", bFailures |-> 0]
         ELSE [status |-> "survived", bFailures |-> 0]

\* a classification that looks at the first event only
ClassifyFirstEventOnly(ret, ctxErr) ==
    IF ret.err # "nil"
    THEN IF ctxErr = "DeadlineExceeded"
         THEN [status |-> "killed (timeout)", bFailures |-> 0]
         ELSE [status |-> "killed", bFailures |-> 1]
    ELSE IF ret.events # <<>> /\ ret.events[1].Action = "fail"
         THEN [status |-> "killed", bFailures |-> 0]
         ELSE [status |-> "survived", bFailures |-> 0]

\* the worker's classification of what runGoTest returned; ctxErr is ctx.Err()
\* after cancel()
Classify(ret, ctxErr) ==
    IF ret.err # "nil"
    THEN IF ctxErr = "DeadlineExceeded"
         THEN [status |-> "killed (timeout)", bFailures |-> 0]
         ELSE [status |-> "killed", bFailures |-> 1]
    ELSE IF \E i \in DOMAIN ret.events : ret.events[i].Action = "fail"
         THEN [status |-> "killed", bFailures |-> 0]
         ELSE [status |-> "survived", bFailures |-> 0]

\* ------------------------------------------------------------------------
\* The state of one call of runner.Run
\* ------------------------------------------------------------------------

VARIABLES
    patterns,   \* the patterns argument
    config,     \* the Config argument: Workers, Mutators, MutationDir
    profile,    \* the coverage profile the first go test run leaves on disk
    streams,    \* the output streams the test subprocess can print in this run
    main,       \* Run's own position and what it returned
    coverage,   \* the Coverage index, once loaded
    ast,        \* the parsed files: ast[i] is the tree of filenames[i]
    prod,       \* the producer loop: file, node, operator, pending mutation
    tasks,      \* the tasks channel: buffer and closed flag
    results,    \* the results channel: buffer and closed flag
    wk,         \* the workers: position, current task, status, bFailures
    drv,        \* per worker: the context and subprocess of its runGoTest call
    disk,       \* per worker: the files of its worker directory
    report,     \* the collector's Report
    log         \* history: what happened to each generated mutation

vars == << patterns, config, profile, streams, main, coverage, ast, prod, tasks, results,
           wk, drv, disk, report, log >>

Workers == 1 .. config.Workers

\* make(chan task, config.Workers*2), make(chan mutationResult, config.Workers*2)
ChanCap == config.Workers * 2

\* a worker directory that does not depend on the worker
WorkerDirShared(w) == Join(config.MutationDir, << "w" >>)

\* workerDir := filepath.Join(config.MutationDir, "worker-%d")
WorkerDir(w) == Join(config.MutationDir, << "w", ToString(w) >>)

\* overlayPath := filepath.Join(workerDir, "overlay.json")
OverlayPath(w) == Join(WorkerDir(w), << "o" >>)

\* mutatedFile := filepath.Join(workerDir, filepath.Base(t.filename))
MutatedFile(w, filename) == Join(WorkerDir(w), Base(filename))

\* writeAST: os.Create truncates the file at path, printer.Fprint prints the
\* tree into it. A variant is recorded by its path and the task it was
\* printed for; complete is FALSE for a file the print did not finish
writeAST(variants, path, seq, complete) ==
    { v \in variants : v.path # path }
        \cup { [path |-> path, seq |-> seq, complete |-> complete] }

\* a writer that keeps the entries the descriptor already had
createOverlayFileAppends(old, overlays) ==
    << [Replace |-> overlays \cup (IF old = <<>> THEN {} ELSE old[1].Replace)] >>

\* createOverlayFile: os.Create truncates overlay.json, then the marshalled
\* Replace map is written; old is the previous content of the file
createOverlayFile(old, overlays) == << [Replace |-> overlays] >>

\* what a write that failed leaves behind: the file as it was when os.Create
\* failed, an empty file when the write after it failed
TruncatedOverlay == << [Replace |-> {}] >>

NoDriver == [ctx |-> "none", proc |-> "none", ret |-> <<>>, expiredAtCollect |-> FALSE]

\* a worker directory right after os.MkdirAll: no variant, no overlay.json
EmptyDir == [variants |-> {}, overlay |-> <<>>, overlaySeq |-> 0]

IdleWorker == [pc |-> "init", task |-> <<>>, status |-> "", bFailures |-> 0]

EmptyReport == [Total |-> 0, Killed |-> 0, Timeouts |-> 0, Survived |-> 0,
                Uncovered |-> 0, BuildFailures |-> 0]

\* the state in which Run is entered with input in, n workers and a test
\* subprocess that can print the streams of outs
InitRun(in, n, outs) ==
    /\ patterns = in.patterns
    /\ config = [Workers |-> n, Mutators |-> in.Mutators, MutationDir |-> in.MutationDir]
    /\ profile = in.profile
    /\ streams = outs
    /\ main = [pc |-> "start", err |-> "nil", report |-> <<>>]
    /\ coverage = << >>
    /\ ast = [i \in DOMAIN patterns |-> <<>>]
    /\ prod = [pc |-> "parse", file |-> 1, node |-> 1, mut |-> 1, pending |-> <<>>]
    /\ tasks = [buf |-> <<>>, closed |-> FALSE]
    /\ results = [buf |-> <<>>, closed |-> FALSE]
    /\ wk = [w \in 1 .. config.Workers |-> IdleWorker]
    /\ drv = [w \in 1 .. config.Workers |-> NoDriver]
    /\ disk = [w \in 1 .. config.Workers |-> EmptyDir]
    /\ report = EmptyReport
    /\ log = <<>>

Init == \E in \in Inputs, w \in 1 .. MaxWorkers : InitRun(in, w, CommonOutputs)

\* one worker, one file with one mutation, and a subprocess that can print
\* any stream of at most MaxOut elements
InitDriver ==
    InitRun([patterns |-> << PathCmp >>, Mutators |-> << "Comparison" >>,
             MutationDir |-> DirAbs,
             profile |-> ProfileAll], 1, Outputs)

\* the expanded file list (patterns without "..." are taken as file names)
filenames == patterns

\* ------------------------------------------------------------------------
\* History bookkeeping (not program state)
\* ------------------------------------------------------------------------

\* the log entry of a freshly generated mutation
LogEntry(mut, filename) ==
    [mut |-> mut, filename |-> filename, enqueued |-> 0, taken |-> 0,
     applied |-> 0, reverted |-> 0, wrote |-> 0, ran |-> 0, sent |-> 0,
     recv |-> <<>>]

Bump(l, seq, field) == [l EXCEPT ![seq][field] = @ + 1]

\* ------------------------------------------------------------------------
\* Run: start, shutdown and return
\* ------------------------------------------------------------------------

\* a Run without the check of the pattern list
RunStartNoPatternCheck ==
    /\ main.pc = "start"
    /\ main' = [main EXCEPT !.pc = "produce"]
    /\ coverage' = LoadCoverage(profile)
    /\ wk' = [w \in Workers |-> [wk[w] EXCEPT !.pc = "mkdir"]]
    /\ UNCHANGED << patterns, config, profile, streams, ast, prod, tasks, results, drv, disk,
                    report, log >>

\* Run up to the start of the pipeline: the argument check, the coverage
\* index, the channels, the collector and the workers
RunStart ==
    /\ main.pc = "start"
    /\ IF Len(patterns) = 0
       THEN /\ main' = [main EXCEPT !.pc = "done", !.err = "no patterns provided"]
            /\ UNCHANGED << coverage, wk, disk >>
       ELSE /\ main' = [main EXCEPT !.pc = "produce"]
            /\ coverage' = LoadCoverage(profile)
            /\ wk' = [w \in Workers |-> [wk[w] EXCEPT !.pc = "mkdir"]]
    /\ UNCHANGED << patterns, config, profile, streams, ast, prod, tasks, results, drv, disk,
                    report, log >>

\* close(tasks), once the producer loop is over
CloseTasks ==
    /\ main.pc = "produce"
    /\ prod.pc = "parse"
    /\ prod.file > Len(filenames)
    /\ tasks' = [tasks EXCEPT !.closed = TRUE]
    /\ main' = [main EXCEPT !.pc = "wait"]
    /\ UNCHANGED << patterns, config, profile, streams, coverage, ast, prod, results, wk,
                    drv, disk, report, log >>

\* wg.Wait() returns when every worker has exited; then close(results)
CloseResults ==
    /\ main.pc = "wait"
    /\ \A w \in Workers : wk[w].pc = "exit"
    /\ results' = [results EXCEPT !.closed = TRUE]
    /\ main' = [main EXCEPT !.pc = "recv"]
    /\ UNCHANGED << patterns, config, profile, streams, coverage, ast, prod, tasks, wk,
                    drv, disk, report, log >>

\* a collector that hands over the report as soon as the channel is closed,
\* before it has drained it
RunReturnBeforeDrain ==
    /\ main.pc = "recv"
    /\ results.closed
    /\ main' = [main EXCEPT !.pc = "done", !.report = << report >>]
    /\ UNCHANGED << patterns, config, profile, streams, coverage, ast, prod, tasks,
                    results, wk, drv, disk, report, log >>

\* the collector leaves its range loop on the closed, empty channel and hands
\* the report to Run over the unbuffered finalReport channel; Run returns it
RunReturn ==
    /\ main.pc = "recv"
    /\ results.closed
    /\ results.buf = <<>>
    /\ main' = [main EXCEPT !.pc = "done", !.report = << report >>]
    /\ UNCHANGED << patterns, config, profile, streams, coverage, ast, prod, tasks,
                    results, wk, drv, disk, report, log >>

\* ------------------------------------------------------------------------
\* The score of a Report
\* ------------------------------------------------------------------------

RECURSIVE GCD(_, _)
GCD(a, b) == IF b = 0 THEN a ELSE GCD(b, a % b)

\* the value of a float64 quotient n / d, kept as the fraction in lowest terms
\* (the rounding of the float64 division is not represented)
Ratio(n, d) == [num |-> n \div GCD(n, d), den |-> d \div GCD(n, d)]

\* a score that adds the build failures to the killed mutations
ScoreAddsBuildFailures(r) ==
    IF r.Total = 0 THEN Ratio(0, 1)
    ELSE Ratio((r.Killed + r.Timeouts + r.BuildFailures) * 100, r.Total)

\* Report.Score()
Score(r) ==
    IF r.Total = 0 THEN Ratio(0, 1)
    ELSE Ratio((r.Killed + r.Timeouts) * 100, r.Total)

\* ------------------------------------------------------------------------
\* The collector
\* ------------------------------------------------------------------------

\* a status switch without the "killed (timeout)" case
CountStatusNoTimeoutCase(rep, status) ==
    CASE status = "killed" -> [rep EXCEPT !.Killed = @ + 1]
      [] status = "survived" -> [rep EXCEPT !.Survived = @ + 1]
      [] status = "uncovered" -> [rep EXCEPT !.Uncovered = @ + 1]
      [] OTHER -> rep

\* the status switch of the collector
CountStatus(rep, status) ==
    CASE status = "killed" -> [rep EXCEPT !.Killed = @ + 1]
      [] status = "killed (timeout)" -> [rep EXCEPT !.Timeouts = @ + 1]
      [] status = "survived" -> [rep EXCEPT !.Survived = @ + 1]
      [] status = "uncovered" -> [rep EXCEPT !.Uncovered = @ + 1]
      [] OTHER -> rep

\* a collector that counts the status of a result but not the result itself
CollectNoTotal ==
    /\ main.pc # "start"
    /\ results.buf # <<>>
    /\ LET res == Head(results.buf)
           counted == CountStatus(report, res.status)
       IN  /\ report' = [counted EXCEPT !.BuildFailures = @ + res.buildFailures]
           /\ log' = [log EXCEPT ![res.seq].recv = Append(@, res.status)]
    /\ results' = [results EXCEPT !.buf = Tail(@)]
    /\ UNCHANGED << patterns, config, profile, streams, main, coverage, ast, prod, tasks,
                    wk, drv, disk >>

\* one iteration of "for res := range results"
Collect ==
    /\ main.pc # "start"
    /\ results.buf # <<>>
    /\ LET res == Head(results.buf)
           counted == CountStatus([report EXCEPT !.Total = @ + 1], res.status)
       IN  /\ report' = [counted EXCEPT !.BuildFailures = @ + res.buildFailures]
           /\ log' = [log EXCEPT ![res.seq].recv = Append(@, res.status)]
    /\ results' = [results EXCEPT !.buf = Tail(@)]
    /\ UNCHANGED << patterns, config, profile, streams, main, coverage, ast, prod, tasks,
                    wk, drv, disk >>

\* ------------------------------------------------------------------------
\* The producer
\* ------------------------------------------------------------------------

\* the position of the producer after it is done with operator prod.mut on
\* node prod.node: next operator, else next node, else next file
Advance(p, a) ==
    IF p.mut < Len(config.Mutators)
    THEN [p EXCEPT !.pc = "check", !.mut = @ + 1, !.pending = <<>>]
    ELSE IF p.node < Len(a[p.file])
    THEN [p EXCEPT !.pc = "check", !.node = @ + 1, !.mut = 1, !.pending = <<>>]
    ELSE [pc |-> "parse", file |-> p.file + 1, node |-> 1, mut |-> 1, pending |-> <<>>]

\* a producer that gives up at the first file that does not parse
ProducerParseStopsAtError ==
    /\ main.pc = "produce"
    /\ prod.pc = "parse"
    /\ prod.file <= Len(filenames)
    /\ LET pf == ParseFile(filenames[prod.file])
       IN  IF ~pf.ok
           THEN /\ prod' = [prod EXCEPT !.file = Len(filenames) + 1]
                /\ UNCHANGED ast
           ELSE /\ ast' = [ast EXCEPT ![prod.file] = pf.nodes]
                /\ prod' = IF Len(pf.nodes) = 0 \/ Len(config.Mutators) = 0
                           THEN [prod EXCEPT !.file = @ + 1]
                           ELSE [prod EXCEPT !.pc = "check", !.node = 1, !.mut = 1]
    /\ UNCHANGED << patterns, config, profile, streams, main, coverage, tasks, results,
                    wk, drv, disk, report, log >>

\* parseFile(filename); a file that does not parse is skipped
ProducerParse ==
    /\ main.pc = "produce"
    /\ prod.pc = "parse"
    /\ prod.file <= Len(filenames)
    /\ LET pf == ParseFile(filenames[prod.file])
       IN  IF ~pf.ok
           THEN /\ prod' = [prod EXCEPT !.file = @ + 1]
                /\ UNCHANGED ast
           ELSE /\ ast' = [ast EXCEPT ![prod.file] = pf.nodes]
                /\ prod' = IF Len(pf.nodes) = 0 \/ Len(config.Mutators) = 0
                           THEN [prod EXCEPT !.file = @ + 1]
                           ELSE [prod EXCEPT !.pc = "check", !.node = 1, !.mut = 1]
    /\ UNCHANGED << patterns, config, profile, streams, main, coverage, tasks, results,
                    wk, drv, disk, report, log >>

\* m.Check(n) for the current node and operator, reading the shared tree
ProducerCheck ==
    /\ main.pc = "produce"
    /\ prod.pc = "check"
    /\ LET muts == Check(config.Mutators[prod.mut], prod.file, prod.node,
                         ast[prod.file][prod.node])
       IN  IF muts = <<>>
           THEN /\ prod' = Advance(prod, ast)
                /\ UNCHANGED log
           ELSE /\ prod' = [prod EXCEPT !.pc = "send",
                               !.pending = << [mut |-> muts[1], seq |-> Len(log) + 1] >>]
                /\ log' = Append(log, LogEntry(muts[1], filenames[prod.file]))
    /\ UNCHANGED << patterns, config, profile, streams, main, coverage, ast, tasks,
                    results, wk, drv, disk, report >>

\* a producer without the "continue" after the uncovered result: the
\* uncovered mutation is enqueued as a task as well
ProducerSendNoContinue ==
    /\ main.pc = "produce"
    /\ prod.pc = "send"
    /\ LET p == prod.pending[1]
           filename == filenames[prod.file]
           t == [pf |-> prod.file, filename |-> filename, mut |-> p.mut, seq |-> p.seq]
       IN  IF ~IsCovered(coverage, filename, p.mut.line)
           THEN /\ Len(results.buf) < ChanCap
                /\ Len(tasks.buf) < ChanCap
                /\ results' = [results EXCEPT !.buf = Append(@,
                        [status |-> "uncovered", mutID |-> p.mut.ID,
                         filename |-> filename, line |-> p.mut.line,
                         col |-> p.mut.Pos, buildFailures |-> 0, seq |-> p.seq])]
                /\ tasks' = [tasks EXCEPT !.buf = Append(@, t)]
                /\ log' = Bump(Bump(log, p.seq, "sent"), p.seq, "enqueued")
           ELSE /\ Len(tasks.buf) < ChanCap
                /\ tasks' = [tasks EXCEPT !.buf = Append(@, t)]
                /\ log' = Bump(log, p.seq, "enqueued")
                /\ UNCHANGED results
    /\ prod' = Advance(prod, ast)
    /\ UNCHANGED << patterns, config, profile, streams, main, coverage, ast, wk, drv, disk,
                    report >>

\* the coverage lookup for the pending mutation and the send that follows:
\* an uncovered result to the collector, or a task to the workers
ProducerSend ==
    /\ main.pc = "produce"
    /\ prod.pc = "send"
    /\ LET p == prod.pending[1]
           filename == filenames[prod.file]
       IN  IF ~IsCovered(coverage, filename, p.mut.line)
           THEN /\ Len(results.buf) < ChanCap
                /\ results' = [results EXCEPT !.buf = Append(@,
                        [status |-> "uncovered", mutID |-> p.mut.ID,
                         filename |-> filename, line |-> p.mut.line,
                         col |-> p.mut.Pos, buildFailures |-> 0, seq |-> p.seq])]
                /\ log' = Bump(log, p.seq, "sent")
                /\ UNCHANGED tasks
           ELSE /\ Len(tasks.buf) < ChanCap
                /\ tasks' = [tasks EXCEPT !.buf = Append(@,
                        [pf |-> prod.file, filename |-> filename,
                         mut |-> p.mut, seq |-> p.seq])]
                /\ log' = Bump(log, p.seq, "enqueued")
                /\ UNCHANGED results
    /\ prod' = Advance(prod, ast)
    /\ UNCHANGED << patterns, config, profile, streams, main, coverage, ast, wk, drv, disk,
                    report >>

\* ------------------------------------------------------------------------
\* The workers
\* ------------------------------------------------------------------------

\* os.MkdirAll(workerDir): on failure the worker returns at once
WorkerMkdir(w) ==
    /\ wk[w].pc = "mkdir"
    /\ \E ok \in BOOLEAN :
          wk' = [wk EXCEPT ![w].pc = IF ok THEN "recv" ELSE "exit"]
    /\ UNCHANGED << patterns, config, profile, streams, main, coverage, ast, prod,
                    tasks, results, drv, disk, report, log >>

\* a receive that leaves the task in the queue
WorkerTakeNoDequeue(w) ==
    /\ wk[w].pc = "recv"
    /\ tasks.buf # <<>>
    /\ wk' = [wk EXCEPT ![w].pc = "apply", ![w].task = << Head(tasks.buf) >>]
    /\ log' = Bump(log, Head(tasks.buf).seq, "taken")
    /\ UNCHANGED << patterns, config, profile, streams, main, coverage, ast, prod,
                    tasks, results, drv, disk, report >>

\* a receive that takes the task sent last
WorkerTakeNewest(w) ==
    /\ wk[w].pc = "recv"
    /\ tasks.buf # <<>>
    /\ LET t == tasks.buf[Len(tasks.buf)]
       IN  /\ wk' = [wk EXCEPT ![w].pc = "apply", ![w].task = << t >>]
           /\ tasks' = [tasks EXCEPT !.buf = SubSeq(@, 1, Len(@) - 1)]
           /\ log' = Bump(log, t.seq, "taken")
    /\ UNCHANGED << patterns, config, profile, streams, main, coverage, ast, prod,
                    results, drv, disk, report >>

\* "for t := range tasks": receive the next task
WorkerTake(w) ==
    /\ wk[w].pc = "recv"
    /\ tasks.buf # <<>>
    /\ wk' = [wk EXCEPT ![w].pc = "apply", ![w].task = << Head(tasks.buf) >>]
    /\ tasks' = [tasks EXCEPT !.buf = Tail(@)]
    /\ log' = Bump(log, Head(tasks.buf).seq, "taken")
    /\ UNCHANGED << patterns, config, profile, streams, main, coverage, ast, prod,
                    results, drv, disk, report >>

\* the range loop ends on the closed, empty channel; the worker exits
WorkerExit(w) ==
    /\ wk[w].pc = "recv"
    /\ tasks.buf = <<>>
    /\ tasks.closed
    /\ wk' = [wk EXCEPT ![w].pc = "exit"]
    /\ disk' = [disk EXCEPT ![w] = EmptyDir]
    /\ UNCHANGED << patterns, config, profile, streams, main, coverage, ast, prod,
                    tasks, results, drv, report, log >>

\* t.mut.Apply() on the shared tree
WorkerApply(w) ==
    /\ wk[w].pc = "apply"
    /\ LET t == wk[w].task[1]
       IN  /\ ast' = ApplyMutation(ast, t.mut)
           /\ log' = Bump(log, t.seq, "applied")
    /\ wk' = [wk EXCEPT ![w].pc = "write", ![w].status = "survived",
                        ![w].bFailures = 0]
    /\ UNCHANGED << patterns, config, profile, streams, main, coverage, prod,
                    tasks, results, drv, disk, report >>

\* writeAST and createOverlayFile succeed; runGoTest starts the subprocess
\* under a context with the configured timeout and waits in its select
WorkerRunGoTest(w) ==
    /\ wk[w].pc = "write"
    /\ wk' = [wk EXCEPT ![w].pc = "run"]
    /\ drv' = [drv EXCEPT ![w] = [NoDriver EXCEPT !.ctx = "active", !.proc = "running"]]
    /\ LET t == wk[w].task[1]
           mutatedFile == MutatedFile(w, t.filename)
           absOrig == Abs(t.filename)
       IN  disk' = [disk EXCEPT
                      ![w].variants = writeAST(@, mutatedFile, t.seq, TRUE),
                      ![w].overlay = createOverlayFile(@,
                                         { [key |-> absOrig, value |-> mutatedFile] }),
                      ![w].overlaySeq = t.seq]
    /\ log' = Bump(Bump(log, wk[w].task[1].seq, "wrote"), wk[w].task[1].seq, "ran")
    /\ UNCHANGED << patterns, config, profile, streams, main, coverage, ast, prod,
                    tasks, results, report >>

\* the worker directory after a failed write for worker w's task: writeAST
\* failed (variantWritten is FALSE) or createOverlayFile failed after it; the
\* file that failed is as it was when os.Create failed (created is FALSE) and
\* empty when the write after os.Create failed
DiskAfterFailure(w, variantWritten, created) ==
    LET t == wk[w].task[1]
        mutatedFile == MutatedFile(w, t.filename)
    IN  IF variantWritten
        THEN [disk EXCEPT
                ![w].variants = writeAST(@, mutatedFile, t.seq, TRUE),
                ![w].overlay = IF created THEN TruncatedOverlay ELSE @,
                ![w].overlaySeq = IF created THEN t.seq ELSE @]
        ELSE [disk EXCEPT
                ![w].variants = IF created THEN writeAST(@, mutatedFile, t.seq, FALSE) ELSE @]

\* a failure path that forgets the Revert
WorkerWriteFailNoRevert(w) ==
    /\ wk[w].pc = "write"
    /\ \E variantWritten, created \in BOOLEAN :
          /\ log' = IF variantWritten THEN Bump(log, wk[w].task[1].seq, "wrote") ELSE log
          /\ disk' = DiskAfterFailure(w, variantWritten, created)
    /\ wk' = [wk EXCEPT ![w] = [IdleWorker EXCEPT !.pc = "recv"]]
    /\ UNCHANGED << patterns, config, profile, streams, main, coverage, ast, prod,
                    tasks, results, drv, report >>

\* a failure path that reports the task as killed
WorkerWriteFailSendsResult(w) ==
    /\ wk[w].pc = "write"
    /\ Len(results.buf) < ChanCap
    /\ LET t == wk[w].task[1]
       IN  /\ ast' = RevertMutation(ast, t.mut)
           /\ results' = [results EXCEPT !.buf = Append(@,
                   [status |-> "killed", mutID |-> t.mut.ID, filename |-> t.filename,
                    line |-> t.mut.line, col |-> t.mut.Pos, buildFailures |-> 1,
                    seq |-> t.seq])]
           /\ log' = Bump(Bump(log, t.seq, "reverted"), t.seq, "sent")
    /\ \E variantWritten, created \in BOOLEAN :
          disk' = DiskAfterFailure(w, variantWritten, created)
    /\ wk' = [wk EXCEPT ![w] = [IdleWorker EXCEPT !.pc = "recv"]]
    /\ UNCHANGED << patterns, config, profile, streams, main, coverage, prod,
                    tasks, drv, report >>

\* writeAST fails, or createOverlayFile fails after writeAST succeeded:
\* Revert and continue with the next task
WorkerWriteFail(w) ==
    /\ wk[w].pc = "write"
    /\ LET t == wk[w].task[1]
       IN  /\ ast' = RevertMutation(ast, t.mut)
           /\ \E variantWritten, created \in BOOLEAN :
                 /\ log' = Bump(IF variantWritten THEN Bump(log, t.seq, "wrote") ELSE log,
                                t.seq, "reverted")
                 /\ disk' = DiskAfterFailure(w, variantWritten, created)
    /\ wk' = [wk EXCEPT ![w] = [IdleWorker EXCEPT !.pc = "recv"]]
    /\ UNCHANGED << patterns, config, profile, streams, main, coverage, prod,
                    tasks, results, drv, report >>

\* the subprocess ends by itself; what it printed and its exit status are
\* read when the driver collects it
ProcExit(w) ==
    /\ drv[w].proc = "running"
    /\ drv' = [drv EXCEPT ![w].proc = "exited"]
    /\ UNCHANGED << patterns, config, profile, streams, main, coverage, ast, prod,
                    tasks, results, wk, disk, report, log >>

\* exec.CommandContext kills the subprocess once its context is done
ProcKilled(w) ==
    /\ drv[w].proc = "running"
    /\ drv[w].ctx = "expired"
    /\ drv' = [drv EXCEPT ![w].proc = "ctxkilled"]
    /\ UNCHANGED << patterns, config, profile, streams, main, coverage, ast, prod,
                    tasks, results, wk, disk, report, log >>

\* the deadline of the context passes before cancel() is called
Deadline(w) ==
    /\ wk[w].pc \in {"run", "ret"}
    /\ drv[w].ctx = "active"
    /\ drv' = [drv EXCEPT ![w].ctx = "expired"]
    /\ UNCHANGED << patterns, config, profile, streams, main, coverage, ast, prod,
                    tasks, results, wk, disk, report, log >>

\* select takes the ctx.Done() case: kill the process group, return ctx.Err()
SelectCtx(w) ==
    /\ wk[w].pc = "run"
    /\ drv[w].ctx = "expired"
    /\ drv' = [drv EXCEPT ![w].ret = << CtxBranch >>,
                          ![w].expiredAtCollect = TRUE,
                          ![w].proc = IF @ = "running" THEN "killed" ELSE @]
    /\ wk' = [wk EXCEPT ![w].pc = "ret"]
    /\ UNCHANGED << patterns, config, profile, streams, main, coverage, ast, prod,
                    tasks, results, disk, report, log >>

\* select takes the done case: the subprocess has ended and CombinedOutput
\* has returned its output and error
SelectDone(w) ==
    /\ wk[w].pc = "run"
    /\ drv[w].proc \in {"exited", "ctxkilled"}
    /\ \E out \in streams,
          err \in (IF drv[w].proc = "ctxkilled" THEN {"killed"} ELSE {"nil", "exit"}) :
          drv' = [drv EXCEPT ![w].ret = << DoneBranch(out, err) >>,
                             ![w].expiredAtCollect = (drv[w].ctx = "expired")]
    /\ wk' = [wk EXCEPT ![w].pc = "ret"]
    /\ UNCHANGED << patterns, config, profile, streams, main, coverage, ast, prod,
                    tasks, results, disk, report, log >>

\* cancel(), then the classification of what runGoTest returned
WorkerClassify(w) ==
    /\ wk[w].pc = "ret"
    /\ LET ctxErr == IF drv[w].ctx = "expired" THEN "DeadlineExceeded" ELSE "Canceled"
           c == Classify(drv[w].ret[1], ctxErr)
       IN  wk' = [wk EXCEPT ![w].pc = "send", ![w].status = c.status,
                            ![w].bFailures = c.bFailures]
    /\ drv' = [drv EXCEPT ![w].ctx = IF @ = "active" THEN "canceled" ELSE @]
    /\ UNCHANGED << patterns, config, profile, streams, main, coverage, ast, prod,
                    tasks, results, disk, report, log >>

\* results <- mutationResult{...}
WorkerSend(w) ==
    /\ wk[w].pc = "send"
    /\ Len(results.buf) < ChanCap
    /\ LET t == wk[w].task[1]
       IN  /\ results' = [results EXCEPT !.buf = Append(@,
                   [status |-> wk[w].status, mutID |-> t.mut.ID,
                    filename |-> t.filename, line |-> t.mut.line,
                    col |-> t.mut.Pos, buildFailures |-> wk[w].bFailures,
                    seq |-> t.seq])]
           /\ log' = Bump(log, t.seq, "sent")
    /\ wk' = [wk EXCEPT ![w].pc = "revert", ![w].status = "", ![w].bFailures = 0]
    /\ drv' = [drv EXCEPT ![w] = NoDriver]
    /\ UNCHANGED << patterns, config, profile, streams, main, coverage, ast, prod,
                    tasks, disk, report >>

\* t.mut.Revert() at the end of the loop body
WorkerRevert(w) ==
    /\ wk[w].pc = "revert"
    /\ LET t == wk[w].task[1]
       IN  /\ ast' = RevertMutation(ast, t.mut)
           /\ log' = Bump(log, t.seq, "reverted")
    /\ wk' = [wk EXCEPT ![w] = [IdleWorker EXCEPT !.pc = "recv"]]
    /\ UNCHANGED << patterns, config, profile, streams, main, coverage, prod,
                    tasks, results, drv, disk, report >>

Next ==
    \/ RunStart
    \/ ProducerParse
    \/ ProducerCheck
    \/ ProducerSend
    \/ CloseTasks
    \/ CloseResults
    \/ RunReturn
    \/ Collect
    \/ \E w \in Workers : WorkerMkdir(w)
    \/ \E w \in Workers : WorkerTake(w)
    \/ \E w \in Workers : WorkerExit(w)
    \/ \E w \in Workers : WorkerApply(w)
    \/ \E w \in Workers : WorkerRunGoTest(w)
    \/ \E w \in Workers : WorkerWriteFail(w)
    \/ \E w \in Workers : ProcExit(w)
    \/ \E w \in Workers : ProcKilled(w)
    \/ \E w \in Workers : Deadline(w)
    \/ \E w \in Workers : SelectCtx(w)
    \/ \E w \in Workers : SelectDone(w)
    \/ \E w \in Workers : WorkerClassify(w)
    \/ \E w \in Workers : WorkerSend(w)
    \/ \E w \in Workers : WorkerRevert(w)

Spec == Init /\ [][Next]_vars

\* the pipeline with every output stream, for the classification rules
SpecDriver == InitDriver /\ [][Next]_vars

\* one worker on the file whose nested sums start at the same position, with
\* the arithmetic operator
InitNested ==
    InitRun([patterns |-> << PathSum >>, Mutators |-> << "Arithmetic" >>,
             MutationDir |-> DirAbs,
             profile |-> ProfileAll], 1, CommonOutputs)

\* the pipeline on nested expressions
SpecNested == InitNested /\ [][Next]_vars

\* one worker and two files with one mutation each, so that the worker writes
\* its overlay.json twice; the mutation directory is absolute or relative
InitOverlay ==
    \E dir \in {DirAbs, DirRel} :
        InitRun([patterns |-> << PathSum, PathCmp >>,
                 Mutators |-> << "IncrementDecrement", "Comparison" >>,
                 profile |-> ProfileAll, MutationDir |-> dir], 1, CommonOutputs)

SpecOverlay == InitOverlay /\ [][Next]_vars

\* A user interrupt while Run is going. Neither main nor Run installs a
\* signal handler and every context derives from context.Background(), so
\* the interrupt ends the selene process where it stands: no goroutine takes
\* another step. The test subprocesses run in process groups of their own
\* (Setpgid) and are not signalled; what they do afterwards is not modelled.
Interrupt ==
    /\ main.pc \notin {"done", "interrupted"}
    /\ main' = [main EXCEPT !.pc = "interrupted"]
    /\ UNCHANGED << patterns, config, profile, streams, coverage, ast, prod, tasks,
                    results, wk, drv, disk, report, log >>

NextInterrupt ==
    \/ main.pc # "interrupted" /\ Next
    \/ Interrupt

\* one worker and two files with one mutation each
InitInterrupt ==
    InitRun([patterns |-> << PathSum, PathCmp >>,
             Mutators |-> << "IncrementDecrement", "Comparison" >>,
             profile |-> ProfileAll, MutationDir |-> DirAbs], 1, CommonOutputs)

SpecInterrupt == InitInterrupt /\ [][NextInterrupt]_vars

\* one worker and one file with three covered mutations, one more than the
\* tasks channel holds (config.Workers*2)
InitLive ==
    InitRun([patterns |-> << PathSum >>,
             Mutators |-> << "Arithmetic", "IncrementDecrement" >>,
             profile |-> ProfileAll, MutationDir |-> DirAbs], 1, CommonOutputs)

\* every goroutine that can take a step takes one, every subprocess ends or
\* its deadline passes: a behaviour stops only where no step is enabled
SpecLive == InitLive /\ [][Next]_vars /\ WF_vars(Next)

\* two workers and one file with two mutations, so that both workers write a
\* variant of the same source file; the test subprocess prints one stream
InitWorkspaces ==
    \E dir \in {DirAbs, DirRel} :
        InitRun([patterns |-> << PathCmp >>,
                 Mutators |-> << "Comparison", "ConditionalsBoundary" >>,
                 profile |-> ProfileAll, MutationDir |-> dir], 2, { << "pass" >> })

SpecWorkspaces == InitWorkspaces /\ [][Next]_vars

\* ------------------------------------------------------------------------
\* The catalog on its own: Check on a node of a freshly parsed tree, then
\* Apply, then Revert (the sequence of assertMutation)
\* ------------------------------------------------------------------------

BinaryTokens ==
    {"+", "-", "*", "/", "==", "!=", "<", ">", "<=", ">=", "&&", "||", "<<", "^"}

\* the nodes a parsed file can hold: binary expressions, ++/-- statements and
\* nodes without an operator token
ParsedNodes(pos) ==
    {Node("BinaryExpr", op, pos, 1) : op \in BinaryTokens}
        \cup {Node("IncDecStmt", tok, pos, 1) : tok \in {"++", "--"}}
        \cup {Node("Ident", "", pos, 1)}

\* BinaryExpr.OpPos / IncDecStmt.TokPos of a node of ParsedNodes: its text is
\* a op b or i++, so the token follows a one-letter operand (and a blank, in a
\* binary expression); it never is at the start of the node
OpPos(nd) == IF nd.kind = "IncDecStmt" THEN nd.pos + 1 ELSE nd.pos + 2

InitCatalog ==
    /\ patterns = << PathCmp >>
    /\ \E m \in MutatorNames : config = [Workers |-> 1, Mutators |-> << m >>]
    /\ profile = ProfileAll
    /\ streams = CommonOutputs
    /\ main = [pc |-> "catalog", err |-> "nil", report |-> <<>>]
    /\ coverage = << >>
    /\ \E n1 \in ParsedNodes(1), n2 \in ParsedNodes(2) : ast = << << n1, n2 >> >>
    /\ \E n \in 1 .. 2 :
          prod = [pc |-> "check", file |-> 1, node |-> n, mut |-> 1, pending |-> <<>>]
    /\ tasks = [buf |-> <<>>, closed |-> FALSE]
    /\ results = [buf |-> <<>>, closed |-> FALSE]
    /\ wk = [w \in 1 .. 1 |-> IdleWorker]
    /\ drv = [w \in 1 .. 1 |-> NoDriver]
    /\ disk = [w \in 1 .. 1 |-> EmptyDir]
    /\ report = EmptyReport
    /\ log = <<>>

\* a Check that applies the mutation it returns
CatalogCheckAppliesEagerly ==
    /\ main.pc = "catalog"
    /\ prod.pc = "check"
    /\ LET muts == Check(config.Mutators[1], 1, prod.node, ast[1][prod.node])
       IN  /\ prod' = [prod EXCEPT !.pc = "checked",
                                   !.pending = IF muts = <<>> THEN <<>> ELSE << muts[1] >>]
           /\ ast' = IF muts = <<>> THEN ast ELSE ApplyMutation(ast, muts[1])
    /\ log' = << [before |-> Serialize(ast[1]), tree |-> ast] >>
    /\ UNCHANGED << patterns, config, profile, streams, main, coverage, tasks,
                    results, wk, drv, disk, report >>

\* mutations = append(mutations, m.Check(n)...)
CatalogCheck ==
    /\ main.pc = "catalog"
    /\ prod.pc = "check"
    /\ LET muts == Check(config.Mutators[1], 1, prod.node, ast[1][prod.node])
       IN  prod' = [prod EXCEPT !.pc = "checked",
                                !.pending = IF muts = <<>> THEN <<>> ELSE << muts[1] >>]
    /\ log' = << [before |-> Serialize(ast[1]), tree |-> ast] >>
    /\ UNCHANGED << patterns, config, profile, streams, main, coverage, ast, tasks,
                    results, wk, drv, disk, report >>

\* mut.Apply()
CatalogApply ==
    /\ main.pc = "catalog"
    /\ prod.pc = "checked"
    /\ prod.pending # <<>>
    /\ ast' = ApplyMutation(ast, prod.pending[1])
    /\ prod' = [prod EXCEPT !.pc = "applied"]
    /\ UNCHANGED << patterns, config, profile, streams, main, coverage, tasks,
                    results, wk, drv, disk, report, log >>

\* mut.Revert()
CatalogRevert ==
    /\ main.pc = "catalog"
    /\ prod.pc = "applied"
    /\ ast' = RevertMutation(ast, prod.pending[1])
    /\ prod' = [prod EXCEPT !.pc = "reverted"]
    /\ UNCHANGED << patterns, config, profile, streams, main, coverage, tasks,
                    results, wk, drv, disk, report, log >>

NextCatalog ==
    \/ CatalogCheck
    \/ CatalogApply
    \/ CatalogRevert

SpecCatalog == InitCatalog /\ [][NextCatalog]_vars

\* ------------------------------------------------------------------------
\* The coverage index on its own: a profile is loaded, then asked about one
\* line of one file
\* ------------------------------------------------------------------------

\* largest number of block lines in a coverage profile
MaxBlocks == 2

\* the file names asked about
CoverageFilenames ==
    { << "/", "m", "/", "c" >>, << "/", "m", "/", "x", "c" >>, << "c" >> }

\* the file keys of the profile lines
CoverageKeys ==
    { << "m", "/", "c" >>, << "n", "/", "m", "/", "c" >>, << "o", "/", "c" >>,
      << "c" >>, << "m", "/", "d" >> }

\* the line ranges and counts of the profile lines
CoverageBlocks == { Block(1, 1, 1), Block(2, 3, 2), Block(1, 3, 0) }

CoverageLines == 1 .. 3

ProfileLines == {[file |-> k, block |-> b] : k \in CoverageKeys, b \in CoverageBlocks}

InitCoverage ==
    /\ \E f \in CoverageFilenames : patterns = << f >>
    /\ config = [Workers |-> 1, Mutators |-> <<>>]
    /\ profile \in SeqsUpTo(ProfileLines, MaxBlocks)
    /\ streams = CommonOutputs
    /\ main = [pc |-> "coverage", err |-> "nil", report |-> <<>>]
    /\ coverage = << >>
    /\ ast = << <<>> >>
    /\ prod = [pc |-> "load", file |-> 1, node |-> 1, mut |-> 1, pending |-> <<>>]
    /\ tasks = [buf |-> <<>>, closed |-> FALSE]
    /\ results = [buf |-> <<>>, closed |-> FALSE]
    /\ wk = [w \in 1 .. 1 |-> IdleWorker]
    /\ drv = [w \in 1 .. 1 |-> NoDriver]
    /\ disk = [w \in 1 .. 1 |-> EmptyDir]
    /\ report = EmptyReport
    /\ log = <<>>

\* coverage, err := LoadCoverage(coverFile)
CoverageLoad ==
    /\ main.pc = "coverage"
    /\ prod.pc = "load"
    /\ coverage' = LoadCoverage(profile)
    /\ prod' = [prod EXCEPT !.pc = "query"]
    /\ UNCHANGED << patterns, config, profile, streams, main, ast, tasks, results, wk,
                    drv, disk, report, log >>

\* coverage.IsCovered(filename, pos.Line) for some line of the file
CoverageQuery ==
    /\ main.pc = "coverage"
    /\ prod.pc = "query"
    /\ \E line \in CoverageLines :
          log' = << [filename |-> filenames[1], line |-> line,
                     covered |-> IsCovered(coverage, filenames[1], line)] >>
    /\ prod' = [prod EXCEPT !.pc = "answered"]
    /\ UNCHANGED << patterns, config, profile, streams, main, coverage, ast, tasks,
                    results, wk, drv, disk, report >>

NextCoverage ==
    \/ CoverageLoad
    \/ CoverageQuery

SpecCoverage == InitCoverage /\ [][NextCoverage]_vars

\* ------------------------------------------------------------------------
\* ReverseIfCond on its own: Check on a node, then Apply when Check accepts
\* ------------------------------------------------------------------------

\* deepest nesting of ! and ( ) around an if condition
MaxCondDepth == 2

Ident(name) == [kind |-> "Ident", name |-> name]

\* a binary expression a op b
BinaryExpr(op) == [kind |-> "BinaryExpr", op |-> op]

\* &ast.UnaryExpr{Op: token.NOT, X: x}
UnaryExpr(x) == [kind |-> "UnaryExpr", op |-> "!", X |-> x]

\* &ast.ParenExpr{X: x}
ParenExpr(x) == [kind |-> "ParenExpr", X |-> x]

IfStmt(cond) == [kind |-> "IfStmt", Cond |-> cond]

ComparisonTokens == {"==", "!=", "<", ">", "<=", ">="}

BooleanTokens == {"&&", "||"}

RECURSIVE CondExprs(_)
\* the boolean expressions nested at most d deep
CondExprs(d) ==
    IF d = 0
    THEN {Ident("cond"), Ident("true")}
            \cup {BinaryExpr(op) : op \in ComparisonTokens \cup BooleanTokens}
    ELSE LET inner == CondExprs(d - 1)
         IN  inner \cup {UnaryExpr(x) : x \in inner} \cup {ParenExpr(x) : x \in inner}

\* the nodes the traversal visits: if statements, and a statement that is not
\* one (x := 1)
VisitedNodes == {IfStmt(c) : c \in CondExprs(MaxCondDepth)} \cup {[kind |-> "AssignStmt"]}

RECURSIVE PrintExpr(_)
\* printer.Fprint of an expression, as its sequence of tokens
PrintExpr(e) ==
    CASE e.kind = "Ident" -> << e.name >>
      [] e.kind = "BinaryExpr" -> << "a", e.op, "b" >>
      [] e.kind = "UnaryExpr" -> << e.op >> \o PrintExpr(e.X)
      [] e.kind = "ParenExpr" -> << "(" >> \o PrintExpr(e.X) \o << ")" >>

\* ReverseIfCond.Check(node)
ReverseIfCondCheck(node) == node.kind = "IfStmt"

\* ReverseIfCond.Apply(node)
ReverseIfCondApply(node) ==
    IF node.kind = "IfStmt"
    THEN LET cond == IF node.Cond.kind = "BinaryExpr" THEN ParenExpr(node.Cond)
                     ELSE node.Cond
         IN  [node EXCEPT !.Cond = UnaryExpr(cond)]
    ELSE node

InitIfCond ==
    /\ patterns = << PathCmp >>
    /\ config = [Workers |-> 1, Mutators |-> << "ReverseIfCond" >>]
    /\ profile = ProfileAll
    /\ streams = CommonOutputs
    /\ main = [pc |-> "ifcond", err |-> "nil", report |-> <<>>]
    /\ coverage = << >>
    /\ \E node \in VisitedNodes : ast = << << node >> >>
    /\ prod = [pc |-> "check", file |-> 1, node |-> 1, mut |-> 1, pending |-> <<>>]
    /\ tasks = [buf |-> <<>>, closed |-> FALSE]
    /\ results = [buf |-> <<>>, closed |-> FALSE]
    /\ wk = [w \in 1 .. 1 |-> IdleWorker]
    /\ drv = [w \in 1 .. 1 |-> NoDriver]
    /\ disk = [w \in 1 .. 1 |-> EmptyDir]
    /\ report = EmptyReport
    /\ log = <<>>

\* m.Check(c.Node())
CandidateCheck ==
    /\ main.pc = "ifcond"
    /\ prod.pc = "check"
    /\ prod' = [prod EXCEPT !.pc = "checked",
                            !.pending = << ReverseIfCondCheck(ast[1][1]) >>]
    /\ log' = << [before |-> ast[1][1]] >>
    /\ UNCHANGED << patterns, config, profile, streams, main, coverage, ast, tasks,
                    results, wk, drv, disk, report >>

\* m.Apply(c.Node()), for a node Check accepted
CandidateApply ==
    /\ main.pc = "ifcond"
    /\ prod.pc = "checked"
    /\ prod.pending[1]
    /\ ast' = [ast EXCEPT ![1][1] = ReverseIfCondApply(@)]
    /\ prod' = [prod EXCEPT !.pc = "applied"]
    /\ UNCHANGED << patterns, config, profile, streams, main, coverage, tasks,
                    results, wk, drv, disk, report, log >>

NextIfCond ==
    \/ CandidateCheck
    \/ CandidateApply

SpecIfCond == InitIfCond /\ [][NextIfCond]_vars

\* ------------------------------------------------------------------------
\* Properties
\* ------------------------------------------------------------------------

\* Run has returned a report
Returned == main.pc = "done" /\ main.err = "nil"

\* worker w holds its task's mutation applied: after Apply, before Revert
HoldsApplied(w) == wk[w].pc \in {"write", "run", "ret", "send", "revert"}

\* mutation i of the log lies on a line the coverage index reports uncovered
Uncovered(i) == ~IsCovered(coverage, log[i].filename, log[i].mut.line)

RECURSIVE SumSent(_)
\* the number of results sent for the first n mutations of the log
SumSent(n) == IF n = 0 THEN 0 ELSE log[n].sent + SumSent(n - 1)

\* C1: after Run returns, the tree of every parsed file is what the parser
\* built: no mutation's effect remains.
C1_NoMutationRemains ==
    Returned =>
        \A i \in DOMAIN ast :
            ParseFile(filenames[i]).ok => ast[i] = ParseFile(filenames[i]).nodes

\* C2: no two workers hold a mutation applied on the tree of the same file at
\* the same time.
C2_NoOverlappingApply ==
    \A w1, w2 \in Workers :
        (w1 # w2 /\ HoldsApplied(w1) /\ HoldsApplied(w2))
            => wk[w1].task[1].pf # wk[w2].task[1].pf

\* C3: for a mutation that Check returned on an unmutated tree, Apply followed
\* by Revert leaves the tree serializing to the text it had before Apply.
C3_RevertRestoresText ==
    (main.pc = "catalog" /\ prod.pc = "reverted") => Serialize(ast[1]) = log[1].before

\* C3 witness: a mutation has been applied (the text changed) and reverted.
C3_Witness ==
    /\ main.pc = "catalog"
    /\ prod.pc = "reverted"
    /\ prod.pending[1].newOp # prod.pending[1].originalOp
    /\ prod.pending[1].node = 2

\* C4: in every state of the collector and in the returned Report,
\* Total = Killed + Timeouts + Survived + Uncovered.
C4_TotalIsSumOfStatuses ==
    /\ report.Total = report.Killed + report.Timeouts + report.Survived + report.Uncovered
    /\ Returned =>
          LET r == main.report[1]
          IN  r.Total = r.Killed + r.Timeouts + r.Survived + r.Uncovered

\* C4 witness: a returned report that counts a timeout next to a kill, and
\* one that counts an uncovered mutation next to a survivor.
C4_Witness ==
    /\ Returned
    /\ main.report[1].Total = 2
    /\ \/ main.report[1].Timeouts = 1 /\ main.report[1].Killed = 1
       \/ main.report[1].Uncovered = 1 /\ main.report[1].Survived = 1

\* C5: every Result on its way to the collector is the Result of one
\* generated mutation; no mutation produces more than one Result or is taken
\* from the task queue more than once; a mutation whose test was run has
\* exactly one Result received when Run returns.
C5_OneResultPerMutation ==
    /\ \A k \in DOMAIN results.buf :
          LET res == results.buf[k]
          IN  /\ res.seq \in DOMAIN log
              /\ res.mutID = log[res.seq].mut.ID
              /\ res.filename = log[res.seq].filename
              /\ res.line = log[res.seq].mut.line
    /\ \A i \in DOMAIN log :
          /\ log[i].sent <= 1
          /\ Len(log[i].recv) <= log[i].sent
          /\ log[i].taken <= 1
          /\ log[i].taken <= log[i].enqueued
          /\ (Returned /\ log[i].ran = 1) => Len(log[i].recv) = 1

\* C5 witness: Run has returned after two tasks were run, each with its one
\* Result.
C5_Witness ==
    /\ Returned
    /\ \E i, j \in DOMAIN log :
          /\ i # j
          /\ log[i].ran = 1 /\ Len(log[i].recv) = 1
          /\ log[j].ran = 1 /\ Len(log[j].recv) = 1

\* C6: when Run returns the Report, the producer has finished, every worker
\* has exited, the results channel is closed and drained, and Total is the
\* number of Results sent during the run.
C6_ReportAfterDrain ==
    Returned =>
        /\ prod.pc = "parse" /\ prod.file > Len(filenames)
        /\ \A w \in Workers : wk[w].pc = "exit"
        /\ tasks.closed
        /\ results.closed /\ results.buf = <<>>
        /\ main.report[1] = report
        /\ main.report[1].Total = SumSent(Len(log))

\* C6 witness: Run has returned a Report of two Results.
C6_Witness == Returned /\ main.report[1].Total = 2

\* C7: a mutation on an uncovered line is never enqueued, taken, applied,
\* written or tested; its only Result has status uncovered, it is received by
\* the time Run returns, and Uncovered counts exactly these Results.
C7_UncoveredShortCircuit ==
    /\ \A i \in DOMAIN log :
          \/ /\ log[i].enqueued = 0 /\ log[i].taken = 0 /\ log[i].applied = 0
             /\ log[i].wrote = 0 /\ log[i].ran = 0
             /\ log[i].sent <= 1
             /\ log[i].recv \in { <<>>, << "uncovered" >> }
             /\ Returned => log[i].recv = << "uncovered" >>
          \/ ~Uncovered(i)
    /\ report.Uncovered = Cardinality({i \in DOMAIN log : log[i].recv # <<>> /\ Uncovered(i)})
    /\ report.Uncovered <= report.Total

\* C7 witness: Run has returned with an uncovered mutation counted, next to
\* mutations that were tested.
C7_Witness ==
    /\ Returned
    /\ report.Uncovered = 1
    /\ \E i \in DOMAIN log : Uncovered(i) /\ log[i].recv = << "uncovered" >>
    /\ \E i \in DOMAIN log : log[i].ran = 1

\* C8: when the timeout had expired by the time the driver's select returned,
\* the task's status is killed (timeout), whichever select case was taken.
C8_TimeoutMeansKilledTimeout ==
    \A w \in Workers :
        (wk[w].pc = "send" /\ drv[w].expiredAtCollect) => wk[w].status = "killed (timeout)"

\* C9: when the subprocess ended without a timeout and without any decodable
\* event, whatever its exit status, the task is killed with the build-failure
\* flag set.
C9_NoEventsMeansBuildFailure ==
    \A w \in Workers :
        (/\ wk[w].pc = "send"
         /\ drv[w].ctx # "expired"
         /\ drv[w].ret[1].err # "ctx"
         /\ drv[w].ret[1].events = <<>>)
            => (wk[w].status = "killed" /\ wk[w].bFailures = 1)

\* C10: when the timeout had not expired at collection and the output decoded
\* without error into at least one event, the status is killed if some event
\* has Action "fail" and survived otherwise, without the build-failure flag.
C10_ClassifiedByFailEvents ==
    \A w \in Workers :
        (/\ wk[w].pc = "send"
         /\ ~drv[w].expiredAtCollect
         /\ drv[w].ret[1].err = "nil"
         /\ drv[w].ret[1].events # <<>>)
            => LET evs == drv[w].ret[1].events
                   failed == \E k \in DOMAIN evs : evs[k].Action = "fail"
               IN  /\ wk[w].status = (IF failed THEN "killed" ELSE "survived")
                   /\ wk[w].bFailures = 0

\* C10 witness: a stream whose second event is the only failure was classified
\* killed.
C10_Witness ==
    \E w \in Workers :
        /\ wk[w].pc = "send"
        /\ ~drv[w].expiredAtCollect
        /\ drv[w].ret[1].err = "nil"
        /\ drv[w].ret[1].events = << [Action |-> "output"], [Action |-> "fail"] >>
        /\ wk[w].status = "killed"

\* C11: when decoding the stream fails after at least one event was decoded
\* (and the timeout never expired), the task is classified from the decoded
\* events alone: killed if one has Action "fail", survived otherwise, and the
\* build-failure flag is not set.
C11_DecodeErrorUsesEvents ==
    \A w \in Workers :
        (/\ wk[w].pc = "send"
         /\ drv[w].ctx # "expired"
         /\ drv[w].ret[1].err = "decode"
         /\ drv[w].ret[1].events # <<>>)
            => LET evs == drv[w].ret[1].events
                   failed == \E k \in DOMAIN evs : evs[k].Action = "fail"
               IN  /\ wk[w].status = (IF failed THEN "killed" ELSE "survived")
                   /\ wk[w].bFailures = 0

\* the results the collector has received so far, by the index of their
\* mutation in the log
Received == {i \in DOMAIN log : log[i].recv # <<>>}

\* the received results whose status says the mutation was caught
ReceivedCaught ==
    {i \in Received : log[i].recv[1] \in {"killed", "killed (timeout)"}}

C13_ScoreBounds ==
    /\ report.Killed + report.Timeouts <= report.Total
    /\ Score(report).den > 0
    /\ Score(report).num >= 0
    /\ Score(report).num <= 100 * Score(report).den

\* C13 witness: a report in which every result is a caught mutation, one of
\* them by timeout: the score is 100.
C13_Witness ==
    /\ report.Total = 2
    /\ report.Timeouts = 1
    /\ report.Killed = 1
    /\ Score(report) = Ratio(100, 1)

\* the index has answered a query (SpecCoverage)
Answered == main.pc = "coverage" /\ prod.pc = "answered"

\* the last n segments of a path, all of them when it has fewer
LastSegments(p, n) ==
    LET parts == Split(p)
    IN  IF Len(parts) <= n THEN parts ELSE SubSeq(parts, Len(parts) - n + 1, Len(parts))

\* the segments of k are the last segments of f
SegmentSuffix(f, k) ==
    LET fParts == Split(f)
        kParts == Split(k)
    IN  /\ Len(kParts) <= Len(fParts)
        /\ SubSeq(fParts, Len(fParts) - Len(kParts) + 1, Len(fParts)) = kParts

\* the matching rule as the claim states it: one path is a suffix of the
\* other by whole segments, or both have two last segments and these agree
ClaimedMatch(f, k) ==
    \/ SegmentSuffix(f, k)
    \/ SegmentSuffix(k, f)
    \/ /\ Len(Split(f)) >= 2
       /\ Len(Split(k)) >= 2
       /\ LastSegments(f, 2) = LastSegments(k, 2)

\* block line i of the profile has a positive count and spans the line
SpansLine(i, line) ==
    /\ profile[i].block.Count > 0
    /\ profile[i].block.StartLine <= line
    /\ line <= profile[i].block.EndLine

\* C14: IsCovered(F, L) is true exactly when the profile holds a block with a
\* positive count that spans L under a key K matching F, F and K matching when
\* one is a suffix of the other by whole path segments or their last two
\* segments agree; a same-named file of another directory does not match.
C14_CoveredIffMatchingBlock ==
    Answered =>
        (log[1].covered <=>
            \E i \in DOMAIN profile :
                SpansLine(i, log[1].line) /\ ClaimedMatch(log[1].filename, profile[i].file))

\* the profile with block line i stored under key k instead
Rekeyed(i, k) == [profile EXCEPT ![i].file = k]

\* C15: when IsCovered(F, L) is true through a block stored under key K, it is
\* still true when that block is stored under any key K' whose last two path
\* segments are those of K.
C15_CoveredUnderAgreeingKey ==
    Answered =>
        \A i \in DOMAIN profile :
            (SpansLine(i, log[1].line) /\ PathMatch(log[1].filename, profile[i].file))
                => \A k \in CoverageKeys :
                      LastSegments(k, 2) = LastSegments(profile[i].file, 2)
                          => IsCovered(LoadCoverage(Rekeyed(i, k)), log[1].filename,
                                       log[1].line)

\* C15 witness: a line covered through the only block of the profile, stored
\* under m/c, while n/m/c is another key with the same last two segments.
C15_Witness ==
    /\ Answered
    /\ Len(profile) = 1
    /\ log[1].covered
    /\ log[1].filename = << "/", "m", "/", "c" >>
    /\ profile[1].file = << "m", "/", "c" >>
    /\ \E k \in CoverageKeys :
          /\ k # profile[1].file
          /\ LastSegments(k, 2) = LastSegments(profile[1].file, 2)
          /\ IsCovered(LoadCoverage(Rekeyed(1, k)), log[1].filename, log[1].line)

\* ReverseIfCond has checked the node (SpecIfCond)
IfChecked == main.pc = "ifcond" /\ prod.pc \in {"checked", "applied"}

\* C16: ReverseIfCond produces no mutation for an if statement whose condition
\* is a binary expression with a comparison or a boolean operator.
C16_SkipsComparisonAndBoolean ==
    (/\ IfChecked
     /\ log[1].before.kind = "IfStmt"
     /\ log[1].before.Cond.kind = "BinaryExpr"
     /\ log[1].before.Cond.op \in ComparisonTokens \cup BooleanTokens)
        => ~prod.pending[1]

\* the condition the claim expects after Apply on an if with condition c
NegatedCond(c) ==
    CASE c.kind = "UnaryExpr" -> PrintExpr(c.X)
      [] c.kind = "BinaryExpr" -> << "!", "(" >> \o PrintExpr(c) \o << ")" >>
      [] OTHER -> << "!" >> \o PrintExpr(c)

\* C17: ReverseIfCond yields a mutation exactly for if statements; its Apply
\* turns condition c into !c, with parentheses around a binary c, and into d
\* when c is !d.
C17_NegatesOrStrips ==
    /\ IfChecked => (prod.pending[1] <=> log[1].before.kind = "IfStmt")
    /\ (main.pc = "ifcond" /\ prod.pc = "applied")
          => PrintExpr(ast[1][1].Cond) = NegatedCond(log[1].before.Cond)

\* Check has been called on the node (SpecCatalog)
CatalogChecked == main.pc = "catalog" /\ prod.pc \in {"checked", "applied", "reverted"}

\* the operator pairs the claim lists for each token-swapping operator
ClaimedPairs(m) ==
    CASE m = "Arithmetic" -> { << "+", "-" >>, << "*", "/" >> }
      [] m = "Comparison" -> { << "==", "!=" >>, << "<", ">=" >>, << ">", "<=" >> }
      [] m = "ConditionalsBoundary" -> { << "<", "<=" >>, << ">", ">=" >> }
      [] m = "Boolean" -> { << "&&", "||" >> }
      [] m = "IncrementDecrement" -> { << "++", "--" >> }

\* the partners of node nd's token in the table of operator m (none when the
\* node is not of the operator's kind or its token is not in the table)
ClaimedPartners(m, nd) ==
    IF nd.kind # (IF m = "IncrementDecrement" THEN "IncDecStmt" ELSE "BinaryExpr")
    THEN {}
    ELSE {q[2] : q \in {r \in ClaimedPairs(m) : r[1] = nd.op}}
            \cup {q[1] : q \in {r \in ClaimedPairs(m) : r[2] = nd.op}}

\* C18: Check returns exactly one Mutation when the node's token is in the
\* operator's table and none otherwise, and Apply sets the token to its table
\* partner, leaving the other nodes alone.
C18_TokenTables ==
    CatalogChecked =>
        LET m == config.Mutators[1]
            n == prod.node
            nd == log[1].tree[1][n]
            partners == ClaimedPartners(m, nd)
        IN  /\ Len(Check(m, 1, n, nd)) = (IF partners = {} THEN 0 ELSE 1)
            /\ Len(prod.pending) = (IF partners = {} THEN 0 ELSE 1)
            /\ prod.pc = "applied" =>
                  /\ partners = {ast[1][n].op}
                  /\ \A k \in DOMAIN ast[1] : k # n => ast[1][k] = log[1].tree[1][k]

\* C18 witness: ConditionalsBoundary has turned a < into <=.
C18_Witness ==
    /\ main.pc = "catalog"
    /\ prod.pc = "applied"
    /\ config.Mutators[1] = "ConditionalsBoundary"
    /\ log[1].tree[1][prod.node].op = "<"
    /\ ast[1][prod.node].op = "<="

\* C19: two distinct Mutations generated from the same file in one run have
\* different IDs, also when their expressions start at the same position.
C19_DistinctIDs ==
    \A i, j \in DOMAIN log :
        (i # j /\ log[i].filename = log[j].filename) => log[i].mut.ID # log[j].mut.ID

\* C20: the position recorded in a Mutation of a node that has an operator
\* token is the position of that token.
C20_PosIsOperatorToken ==
    (CatalogChecked /\ prod.pending # <<>>)
        => prod.pending[1].Pos = OpPos(log[1].tree[1][prod.node])

\* C21: Run called with an empty pattern list returns an error and no Report,
\* and nothing of the pipeline has happened: no file parsed, no worker
\* started, no mutation generated or applied, no subprocess launched.
C21_EmptyPatternsRejected ==
    Len(patterns) = 0 =>
        /\ main.pc \in {"start", "done"}
        /\ main.pc = "done" => (main.err # "nil" /\ main.report = <<>>)
        /\ coverage = << >>
        /\ prod.pc = "parse" /\ prod.file = 1
        /\ \A w \in Workers : wk[w].pc = "init" /\ drv[w] = NoDriver
        /\ log = <<>>
        /\ tasks.buf = <<>> /\ ~tasks.closed
        /\ results.buf = <<>> /\ ~results.closed
        /\ report = EmptyReport

\* C21 witness: Run has returned the error for the empty list.
C21_Witness ==
    /\ Len(patterns) = 0
    /\ main.pc = "done"
    /\ main.err = "no patterns provided"

\* file i of the list does not parse
Unparsable(i) == ~ParseFile(filenames[i]).ok

\* the number of mutations the operators find in the files that parse
ExpectedMutations ==
    LET NodesOf(f) == IF ParseFile(filenames[f]).ok THEN ParseFile(filenames[f]).nodes
                      ELSE <<>>
        candidates == UNION { {<< f, n, m >> : n \in DOMAIN NodesOf(f),
                                               m \in DOMAIN config.Mutators} :
                              f \in DOMAIN filenames }
    IN  Cardinality({t \in candidates :
                        Check(config.Mutators[t[3]], t[1], t[2], NodesOf(t[1])[t[2]]) # <<>>})

C24_ParseReturnsEventsOrError ==
    \A out \in streams :
        LET r == parseGoTestOutput(out)
        IN  IF \A k \in DOMAIN out : out[k] \in EventActions
            THEN /\ r.err = "nil"
                 /\ r.events = [k \in DOMAIN out |-> [Action |-> out[k]]]
            ELSE r.err # "nil"

\* C24 witness: the driver got the decode error of a stream whose first
\* element is a run event and whose second is not JSON.
C24_Witness ==
    \E w \in Workers :
        /\ wk[w].pc = "ret"
        /\ << "run", "garbage" >> \in streams
        /\ drv[w].ret[1] = [events |-> << [Action |-> "run"] >>, err |-> "decode"]

\* worker w is working on the task of mutation i
HeldBy(w, i) == wk[w].task # <<>> /\ wk[w].task[1].seq = i

\* a worker took mutation i and is done with it
Finished(i) == log[i].taken = 1 /\ \A w \in Workers : ~HeldBy(w, i)

\* C25: on every path through a task the applied Mutation is reverted exactly
\* once before the worker takes its next task or exits: a mutation a worker is
\* done with was applied once and reverted once, and one a worker is working
\* on is applied at most once and not yet reverted.
C25_RevertedExactlyOnce ==
    \A i \in DOMAIN log :
        /\ log[i].applied <= 1
        /\ log[i].reverted <= log[i].applied
        /\ Finished(i) => (log[i].applied = 1 /\ log[i].reverted = 1)
        /\ \A w \in Workers :
              HeldBy(w, i) =>
                  /\ log[i].applied = (IF HoldsApplied(w) THEN 1 ELSE 0)
                  /\ log[i].reverted = 0

\* C25 witness: a mutation whose test timed out and one whose variant could
\* not be written have both been reverted once.
C25_Witness ==
    \E i, j \in DOMAIN log :
        /\ Finished(i) /\ log[i].recv = << "killed (timeout)" >> /\ log[i].reverted = 1
        /\ Finished(j) /\ log[j].ran = 0 /\ log[j].reverted = 1

\* C26: a worker has reverted its task's Mutation when it emits the Result, so
\* it never waits on the results channel with the Mutation applied.
C26_RevertBeforeEmit ==
    \A w \in Workers :
        wk[w].pc = "send" => log[wk[w].task[1].seq].reverted = 1

\* worker w leaves a task because its variant or overlay could not be written
WriteFailStep(w) == wk[w].pc = "write" /\ wk'[w].pc = "recv"

\* C28: when writing the variant or the overlay descriptor fails, the worker
\* reverts the Mutation, launches no subprocess and emits no Result (Total is
\* not incremented) and is ready for its next task; Run returns without error.
C28_WriteFailureSkipsTask ==
    /\ [](Returned => main.err = "nil")
    /\ [][\A w \in Workers :
            WriteFailStep(w) =>
                LET t == wk[w].task[1]
                IN  /\ ast' = RevertMutation(ast, t.mut)
                    /\ log'[t.seq].reverted = 1
                    /\ log'[t.seq].ran = 0
                    /\ log'[t.seq].sent = 0
                    /\ drv' = drv
                    /\ results' = results
                    /\ report' = report
                    /\ wk'[w].task = <<>>]_vars

\* C28 witness: Run has returned a Report of one Result after the variant of
\* the other mutation could not be written.
C28_Witness ==
    /\ Returned
    /\ main.report[1].Total = 1
    /\ \E i, j \in DOMAIN log :
          /\ log[i].taken = 1 /\ log[i].ran = 0 /\ log[i].reverted = 1 /\ log[i].sent = 0
          /\ log[j].ran = 1 /\ log[j].recv # <<>>

\* C29: a test run that was still going when its deadline passed and that the
\* worker reports as a timeout was ended by the driver's kill of the process
\* group: runGoTest returned from the ctx.Done() case of its select, which
\* sends the group signal before it returns.
C29_GroupKillBeforeTimeout ==
    \A w \in Workers :
        ( /\ wk[w].pc = "send"
          /\ wk[w].status = "killed (timeout)"
          /\ drv[w].proc \in {"killed", "ctxkilled"} )
        => drv[w].ret[1] = CtxBranch

\* C23: no overlay.json holds a Replace entry whose key or value is a
\* relative path.
C23_OverlayPathsAbsolute ==
    \A w \in Workers :
        \A k \in DOMAIN disk[w].overlay :
            \A e \in disk[w].overlay[k].Replace : IsAbs(e.key) /\ IsAbs(e.value)

\* C27: while a test subprocess of worker w is invoked, w's overlay.json was
\* written for the task at hand, after its Apply and after its variant was
\* printed, and holds exactly one Replace entry: from the absolute path of
\* the task's source file to the variant printed for this task.
C27_OverlayHoldsOneEntry ==
    \A w \in Workers :
        wk[w].pc = "run" =>
            LET t == wk[w].task[1]
                mutatedFile == MutatedFile(w, t.filename)
            IN  /\ log[t.seq].applied = 1
                /\ [path |-> mutatedFile, seq |-> t.seq, complete |-> TRUE]
                       \in disk[w].variants
                /\ disk[w].overlaySeq = t.seq
                /\ disk[w].overlay =
                       << [Replace |-> { [key |-> Abs(t.filename), value |-> mutatedFile] }] >>
                /\ IsAbs(Abs(t.filename))

\* C27 witness: a subprocess is invoked for a task of one file after the same
\* worker ran the test for a task of another file.
C27_Witness ==
    \E w \in Workers :
        /\ wk[w].pc = "run"
        /\ config.Workers = 1
        /\ \E i \in DOMAIN log :
              /\ Finished(i)
              /\ log[i].ran = 1
              /\ log[i].filename # wk[w].task[1].filename

\* C30: once the user has interrupted the run, no test subprocess is left
\* running, no task is applied any more, and every Mutation that was applied
\* has been reverted.
C30_InterruptCancelsAndReverts ==
    main.pc = "interrupted" =>
        /\ \A w \in Workers : drv[w].proc # "running"
        /\ \A i \in DOMAIN log : log[i].reverted = log[i].applied

\* C31: the operator that a generated Mutation's Revert writes back is the
\* operator its node has in the file as parsed: Check never captures a node
\* in the state another Mutation's Apply has put it in.
C31_OriginalIsParsedOperator ==
    \A i \in DOMAIN log :
        log[i].mut.originalOp
            = ParseFile(log[i].filename).nodes[log[i].mut.node].op

\* worker w prints the variant of its task and goes on to run the tests
PrintsVariant(w) == wk[w].pc = "write" /\ wk'[w].pc = "run"

\* C32: the text a worker prints as the variant of a task holds the task's
\* new operator at the task's node and, at every other node, the operator of
\* the file as parsed.
C32_VariantHoldsOnlyOwnMutation ==
    [][\A w \in Workers :
          PrintsVariant(w) =>
              LET t == wk[w].task[1]
                  text == Serialize(ast[t.mut.file])
                  parsed == Serialize(ParseFile(t.filename).nodes)
              IN  /\ text[t.mut.node] = t.mut.newOp
                  /\ \A k \in DOMAIN text : k # t.mut.node => text[k] = parsed[k]]_vars

\* C33: Run eventually returns, also when workers could not create their
\* directory and have exited without taking a task.
C33_RunReturns == <>(main.pc = "done")

\* C34: when runGoTest has returned to the worker, the subprocess it started
\* has ended and has been waited for: no signalled or half-killed process
\* group is left running while the worker goes on to its next task.
C34_DriverReturnsAfterGroupEnded ==
    \A w \in Workers :
        wk[w].pc \in {"ret", "send"} => drv[w].proc = "exited"

\* C35: with a single worker, the covered mutations of a file are applied in
\* the order Check generated them: when one has been applied, every covered
\* mutation of the same file that was generated before it has been applied.
C35_SingleWorkerAppliesInOrder ==
    config.Workers = 1 =>
        \A i, j \in DOMAIN log :
            ( /\ i < j
              /\ log[i].filename = log[j].filename
              /\ ~Uncovered(i)
              /\ log[j].applied = 1 )
            => log[i].applied = 1

\* C35 witness: the single worker has applied three mutations of one file.
C35_Witness ==
    /\ config.Workers = 1
    /\ \E i, j, k \in DOMAIN log :
          /\ i < j /\ j < k
          /\ log[i].filename = log[k].filename /\ log[j].filename = log[k].filename
          /\ log[i].applied = 1 /\ log[j].applied = 1 /\ log[k].applied = 1

\* C36: after an operator's Check on a node the tree is the tree Check was
\* called on, whether or not Check returned a Mutation; the tree differs from
\* it only after the Mutation's Apply, and by that Mutation alone, and is the
\* same again after its Revert.
C36_CheckLeavesTreeUnchanged ==
    CatalogChecked =>
        /\ prod.pc = "checked" => ast = log[1].tree
        /\ prod.pc = "applied" => ast = ApplyMutation(log[1].tree, prod.pending[1])
        /\ prod.pc = "reverted" =>
              ast = RevertMutation(ApplyMutation(log[1].tree, prod.pending[1]),
                                   prod.pending[1])

\* C36 witness: IncrementDecrement's Check has returned a Mutation for i++
\* and the statement still reads i++.
C36_Witness ==
    /\ main.pc = "catalog"
    /\ prod.pc = "checked"
    /\ config.Mutators = << "IncrementDecrement" >>
    /\ prod.pending # <<>>
    /\ prod.pending[1].newOp = "--"
    /\ ast[1][prod.node].op = "++"

\* C37: a Result carries a build-failure count of 1 only with the status
\* killed, and otherwise 0, both when the worker is about to send it and in
\* the results channel; the collector's BuildFailures never exceeds its
\* Killed, nor does that of the Report Run returns.
C37_BuildFailureOnlyWithKilled ==
    /\ \A w \in Workers :
          wk[w].pc = "send" =>
              /\ wk[w].bFailures \in {0, 1}
              /\ wk[w].bFailures = 1 => wk[w].status = "killed"
    /\ \A k \in DOMAIN results.buf :
          /\ results.buf[k].buildFailures \in {0, 1}
          /\ results.buf[k].buildFailures = 1 => results.buf[k].status = "killed"
    /\ report.BuildFailures <= report.Killed
    /\ Returned => main.report[1].BuildFailures <= main.report[1].Killed

\* C37 witness: the collector has counted a build failure, a test-detected
\* kill and a timeout.
C37_Witness ==
    /\ report.BuildFailures = 1
    /\ report.Killed = 2
    /\ report.Timeouts = 1

\* path p names something inside directory dir
IsUnder(p, dir) ==
    /\ Len(p) > Len(dir) + 1
    /\ SubSeq(p, 1, Len(dir)) = dir
    /\ p[Len(dir) + 1] = "/"

\* C38: two workers never have the same directory, nor one inside the
\* other's, nor the same overlay path; every variant a worker has written and
\* its overlay.json lie inside its own directory and inside no other
\* worker's.
C38_WorkspacesDisjoint ==
    \A w1 \in Workers :
        /\ IsUnder(OverlayPath(w1), WorkerDir(w1))
        /\ \A v \in disk[w1].variants : IsUnder(v.path, WorkerDir(w1))
        /\ \A w2 \in Workers \ {w1} :
              /\ WorkerDir(w1) # WorkerDir(w2)
              /\ ~IsUnder(WorkerDir(w1), WorkerDir(w2))
              /\ OverlayPath(w1) # OverlayPath(w2)
              /\ ~IsUnder(OverlayPath(w1), WorkerDir(w2))
              /\ \A v \in disk[w1].variants : ~IsUnder(v.path, WorkerDir(w2))
              /\ \A v1 \in disk[w1].variants, v2 \in disk[w2].variants :
                    v1.path # v2.path

\* C38 witness: two workers hold a variant of the same source file at the
\* same time, each for its own task.
C38_Witness ==
    \E w1, w2 \in Workers :
        /\ w1 # w2
        /\ wk[w1].pc = "run" /\ wk[w2].pc = "run"
        /\ wk[w1].task[1].filename = wk[w2].task[1].filename
        /\ disk[w1].variants # {} /\ disk[w2].variants # {}

====
